---- MODULE Spec2Model ----
(***************************************************************************)
(* A model of ankiaddonconfig: the dotted-path ConfigManager               *)
(* (src/manager.py) and the ConfigWindow edit session (src/window.py).     *)
(*                                                                         *)
(* The specifications share the store's state:                             *)
(*   StoreSpec   the ConfigManager API applied to drawn trees, paths and   *)
(*               values (get / set / pop / get_from_dict / contains);      *)
(*   LifeSpec    any sequence of calls on one ConfigManager (load / save / *)
(*               load_defaults / set / del / copy);                        *)
(*   Spec        one ConfigWindow session after another over the same      *)
(*               ConfigManager (open, push, reset, advanced, recovery,     *)
(*               save, cancel);                                            *)
(*   LiveSpec    Spec with a cooperative user in the recovery;             *)
(*   WidgetSpec  one input widget of a ConfigLayout (update, edit, color   *)
(*               pick, path chooser) over a drawn stored value.            *)
(***************************************************************************)
EXTENDS Integers, Sequences, FiniteSets, TLC

VARIABLES
    heap,        \* Python objects holding config trees: "cfg", "def", "snap"
    _config,     \* ConfigManager._config: the object it refers to
    _default,    \* ConfigManager._default: the object it refers to
    registry,    \* the add-on registry's persisted configuration (on disk)
    default0,    \* the default tree as fetched at construction (history)
    key,         \* StoreSpec: the dotted path drawn for this run
    value,       \* StoreSpec: the value drawn for this run
    last,        \* StoreSpec: the last API call, its outcome and the tree before it
    win          \* Spec: the ConfigWindow session; WidgetSpec: the widget

vars == <<heap, _config, _default, registry, default0, key, value, last, win>>

(***************************************************************************)
(* Config trees.  A node is a mapping, a sequence or a scalar; every node  *)
(* is a record of the same shape so that any two nodes compare.  Mapping   *)
(* keys and path segments are strings, written as sequences of characters  *)
(* so that split('.') and int() can be computed.  A boolean is kind "bool" *)
(* with n in {0, 1}, as Python's bool is an int.                           *)
(***************************************************************************)
NoKids == [x \in {} |-> 0]

Node(kind, s, n, m, l) == [kind |-> kind, s |-> s, n |-> n, m |-> m, l |-> l]

IntV(n) == Node("int", "", n, NoKids, <<>>)

StrV(s) == Node("str", s, 0, NoKids, <<>>)

BoolV(b) == Node("bool", "", IF b THEN 1 ELSE 0, NoKids, <<>>)

NoneV == Node("none", "", 0, NoKids, <<>>)

MapV(m) == Node("map", "", 0, m, <<>>)

ListV(l) == Node("list", "", 0, NoKids, l)

\* {} : what set() creates at an absent intermediate key
EmptyMap == MapV(NoKids)

\* one-entry and two-entry mappings
M1(k1, v1) == MapV([x \in {k1} |-> v1])

M2(k1, v1, k2, v2) == MapV([x \in {k1, k2} |-> IF x = k1 THEN v1 ELSE v2])

\* dict item assignment d[k] = v
MapPut(node, k, v) ==
    MapV([x \in (DOMAIN node.m) \cup {k} |-> IF x = k THEN v ELSE node.m[x]])

\* dict item removal
MapDel(node, k) == MapV([x \in (DOMAIN node.m) \ {k} |-> node.m[x]])

\* list item replacement l[i] = v (1-based position)
ListPut(node, pos, v) == ListV([node.l EXCEPT ![pos] = v])

(***************************************************************************)
(* Strings as character sequences.                                         *)
(***************************************************************************)
Dot == "."

Digits == {"0", "1", "2", "3", "4", "5", "6", "7", "8", "9"}

DigitVal(c) ==
    CASE c = "0" -> 0 [] c = "1" -> 1 [] c = "2" -> 2 [] c = "3" -> 3
      [] c = "4" -> 4 [] c = "5" -> 5 [] c = "6" -> 6 [] c = "7" -> 7
      [] c = "8" -> 8 [] c = "9" -> 9

\* key.split('.'): the segments between separators; "" gives [""]
RECURSIVE SplitFrom(_, _, _)
SplitFrom(str, i, cur) ==
    IF i > Len(str) THEN <<cur>>
    ELSE IF str[i] = Dot THEN <<cur>> \o SplitFrom(str, i + 1, <<>>)
    ELSE SplitFrom(str, i + 1, Append(cur, str[i]))

split(str) == SplitFrom(str, 1, <<>>)

RECURSIVE DigitsVal(_, _, _)
DigitsVal(str, i, acc) ==
    IF i > Len(str) THEN acc
    ELSE DigitsVal(str, i + 1, 10 * acc + DigitVal(str[i]))

\* the digits of an integer literal, with the sign it carries (1 or -1)
Unsigned(body, sign) ==
    IF Len(body) > 0 /\ \A i \in 1..Len(body) : body[i] \in Digits
    THEN [ok |-> TRUE, n |-> sign * DigitsVal(body, 1, 0)]
    ELSE [ok |-> FALSE, n |-> 0]

\* int(level): an optional sign, then one or more digits; anything else is a
\* ValueError (ok = FALSE)
int(level) ==
    IF Len(level) > 0 /\ level[1] = "-" THEN Unsigned(Tail(level), 0 - 1)
    ELSE IF Len(level) > 0 /\ level[1] = "+" THEN Unsigned(Tail(level), 1)
    ELSE Unsigned(level, 1)

\* list[i] for a Python integer index: the 1-based position, or 0 (IndexError)
ListPos(node, i) ==
    LET len == Len(node.l)
    IN  IF i >= 0 /\ i < len THEN i + 1
        ELSE IF i < 0 /\ i >= 0 - len THEN len + i + 1
        ELSE 0

(***************************************************************************)
(* ConfigManager: path walking.  An outcome carries the Python exception   *)
(* raised ("none" when the call returned).                                 *)
(***************************************************************************)
Raised(e) == [err |-> e, val |-> NoneV]

Returned(v) == [err |-> "none", val |-> v]

\* list[pos], pos being ListPos of the index
ListItem(node, pos) ==
    IF pos = 0 THEN Raised("IndexError") ELSE Returned(node.l[pos])

\* return_val[int(level)] for a list; p is int(level)
ListSubscript(node, p) ==
    IF ~p.ok THEN Raised("ValueError") ELSE ListItem(node, ListPos(node, p.n))

\* return_val[level] in get_from_dict, after the int() conversion for lists
Subscript(node, level) ==
    IF node.kind = "list" THEN ListSubscript(node, int(level))
    ELSE IF node.kind = "map" THEN
        IF level \in DOMAIN node.m THEN Returned(node.m[level])
        ELSE Raised("KeyError")
    ELSE Raised("TypeError")

RECURSIVE WalkLevels(_, _)
\* the rest of the loop once return_val[level] gave r
WalkOn(r, levels) ==
    IF r.err # "none" THEN r ELSE WalkLevels(r.val, levels)

WalkLevels(node, levels) ==
    IF levels = <<>> THEN Returned(node)
    ELSE WalkOn(Subscript(node, Head(levels)), Tail(levels))

get_from_dict(dict_obj, k) == WalkLevels(dict_obj, split(k))

(***************************************************************************)
(* ConfigManager.set and ConfigManager.pop walk all levels but the last.   *)
(* Python mutates the tree in place; here the walk returns the rebuilt     *)
(* tree, keeping whatever was created before an exception.                 *)
(***************************************************************************)
Outcome(e, v, t) == [err |-> e, val |-> v, tree |-> t]

\* a final assignment that replaces the mapping by one holding the key only
SetFinal_alone(node, level, v) ==
    IF node.kind = "map" THEN Outcome("none", NoneV, M1(level, v))
    ELSE Outcome("TypeError", NoneV, node)

\* conf_obj[levels[-1]] = value
SetFinal(node, level, v) ==
    IF node.kind = "map" THEN Outcome("none", NoneV, MapPut(node, level, v))
    ELSE Outcome("TypeError", NoneV, node)

\* the list with the outcome r of the walk below its element at pos
InList(node, pos, r) == Outcome(r.err, r.val, ListPut(node, pos, r.tree))

\* the mapping with the outcome r of the walk below its key k
InMap(node, k, r) == Outcome(r.err, r.val, MapPut(node, k, r.tree))

RECURSIVE SetWalk(_, _, _)
\* conf_obj = conf_obj[int(level)] for a list, then the rest of set
SetInList(node, p, pos, levels, v) ==
    IF ~p.ok THEN Outcome("ValueError", NoneV, node)
    ELSE IF pos = 0 THEN Outcome("IndexError", NoneV, node)
    ELSE InList(node, pos, SetWalk(node.l[pos], levels, v))

\* conf_obj = conf_obj[level] for a dict, with {} created on KeyError
SetInMap(node, k, levels, v) ==
    InMap(node, k,
          SetWalk(IF k \in DOMAIN node.m THEN node.m[k] ELSE EmptyMap, levels, v))

SetWalk(node, levels, v) ==
    IF Len(levels) = 1 THEN SetFinal(node, Head(levels), v)
    ELSE IF node.kind = "list" THEN
        SetInList(node, int(Head(levels)), ListPos(node, int(Head(levels)).n),
                  Tail(levels), v)
    ELSE IF node.kind = "map" THEN SetInMap(node, Head(levels), Tail(levels), v)
    ELSE Outcome("TypeError", NoneV, node)

\* conf_obj.pop(levels[-1])
PopFinal(node, level) ==
    IF node.kind = "map" THEN
        IF level \in DOMAIN node.m
        THEN Outcome("none", node.m[level], MapDel(node, level))
        ELSE Outcome("KeyError", NoneV, node)
    ELSE IF node.kind = "list" THEN Outcome("TypeError", NoneV, node)
    ELSE Outcome("AttributeError", NoneV, node)

RECURSIVE PopWalk(_, _)
\* conf_obj = conf_obj[int(level)] for a list, then the rest of pop
PopInList(node, p, pos, levels) ==
    IF ~p.ok THEN Outcome("ValueError", NoneV, node)
    ELSE IF pos = 0 THEN Outcome("IndexError", NoneV, node)
    ELSE InList(node, pos, PopWalk(node.l[pos], levels))

PopWalk(node, levels) ==
    IF Len(levels) = 1 THEN PopFinal(node, Head(levels))
    ELSE IF node.kind = "list" THEN
        PopInList(node, int(Head(levels)), ListPos(node, int(Head(levels)).n),
                  Tail(levels))
    ELSE IF node.kind = "map" THEN
        IF Head(levels) \in DOMAIN node.m
        THEN InMap(node, Head(levels), PopWalk(node.m[Head(levels)], Tail(levels)))
        ELSE Outcome("none", NoneV, node)
    ELSE Outcome("TypeError", NoneV, node)

(***************************************************************************)
(* ConfigManager as a value: the objects it can reach and the registry it  *)
(* reads and writes.  Each method maps a store to the store after it.      *)
(***************************************************************************)
Store == [heap |-> heap, config |-> _config, default |-> _default,
          registry |-> registry]

Commit(S) ==
    /\ heap' = S.heap
    /\ _config' = S.config
    /\ _default' = S.default
    /\ registry' = S.registry

\* mw.addonManager.getConfig: the persisted configuration, a fresh object
getConfig(S) == S.registry

\* mw.addonManager.writeConfig: the tree is serialised to disk whole
writeConfig(S, tree) == [S EXCEPT !.registry = tree]

load(S) == [S EXCEPT !.heap["cfg"] = getConfig(S), !.config = "cfg"]

save(S) == writeConfig(S, S.heap[S.config])

\* load_defaults without the deepcopy: _config becomes the default object itself
load_defaults_shared(S) == [S EXCEPT !.config = S.default]

load_defaults(S) ==
    [S EXCEPT !.heap["cfg"] = S.heap[S.default], !.config = "cfg"]

\* ConfigManager.copy: a deep copy handed to the caller
copy(S) == [S EXCEPT !.heap["snap"] = S.heap[S.config]]

\* try: return ... except KeyError: return default
ExceptKeyError(r, default) ==
    IF r.err = "KeyError" THEN Returned(default) ELSE r

get(S, k, default) == ExceptKeyError(get_from_dict(S.heap[S.config], k), default)

get_default(S, k) == get_from_dict(S.heap[S.default], k)

\* try: ...; return True except KeyError: return False
TrueExceptKeyError(r) ==
    IF r.err = "none" THEN Returned(BoolV(TRUE))
    ELSE IF r.err = "KeyError" THEN Returned(BoolV(FALSE))
    ELSE Raised(r.err)

contains(S, k) == TrueExceptKeyError(get_from_dict(S.heap[S.config], k))

\* the outcome r of a walk over the _config object, and the store after it
Mutated(S, r) ==
    [err |-> r.err, val |-> r.val, store |-> [S EXCEPT !.heap[S.config] = r.tree]]

set(S, k, v) == Mutated(S, SetWalk(S.heap[S.config], split(k), v))

pop(S, k) == Mutated(S, PopWalk(S.heap[S.config], split(k)))

(***************************************************************************)
(* StoreSpec: one ConfigManager call on drawn inputs.  Init draws the      *)
(* persisted tree, the path and the value; each action is one call of the  *)
(* API on the freshly constructed manager and records its outcome.         *)
(***************************************************************************)
\* how many dotted segments a drawn path has at most
MaxSegs == 3

Segments == {<<>>, <<"a">>, <<"b">>, <<"1">>, <<"5">>, <<"-", "1">>}

RECURSIVE JoinDots(_)
JoinDots(segs) ==
    IF Len(segs) = 1 THEN Head(segs)
    ELSE Head(segs) \o <<Dot>> \o JoinDots(Tail(segs))

Paths == {JoinDots(q) : q \in UNION {[1..n -> Segments] : n \in 1..MaxSegs}}

\* {"a": {"b": 1}}
TreeAB == M1(<<"a">>, M1(<<"b">>, IntV(1)))

\* {"a": [10, 20]}
TreeList == M1(<<"a">>, ListV(<<IntV(10), IntV(20)>>))

\* {"": 7, "a": "s"}
TreeEmptyKey == M2(<<>>, IntV(7), <<"a">>, StrV("s"))

\* {"a": [{"b": true}, [3]], "b": 5}
TreeDeep ==
    M2(<<"a">>, ListV(<<M1(<<"b">>, BoolV(TRUE)), ListV(<<IntV(3)>>)>>),
       <<"b">>, IntV(5))

\* {"1": {"5": "x"}}
TreeDigitKeys == M1(<<"1">>, M1(<<"5">>, StrV("x")))

\* {"a": [5, {"b": 1}]}
TreeListOfMaps == M1(<<"a">>, ListV(<<IntV(5), M1(<<"b">>, IntV(1))>>))

SampleTrees ==
    {TreeAB, TreeList, TreeEmptyKey, TreeDeep, TreeDigitKeys, TreeListOfMaps,
     EmptyMap}

\* config.json of the add-on: {"a": {"b": 0}, "b": [1]}
SampleDefault == M2(<<"a">>, M1(<<"b">>, IntV(0)), <<"b">>, ListV(<<IntV(1)>>))

Values == {IntV(99), M1(<<"b">>, StrV("v"))}

\* the default argument a caller passes to get()
Fallback == StrV("fallback")

\* the session is not part of StoreSpec
NoWindow == [state |-> "none"]

Call(op, r, pre) == [op |-> op, err |-> r.err, val |-> r.val, pre |-> pre]

\* ConfigManager.__init__: fetch the defaults, then load()
StoreInit ==
    /\ registry \in SampleTrees
    /\ default0 = SampleDefault
    /\ heap = [o \in {"cfg", "def", "snap"} |->
                 IF o = "cfg" THEN registry
                 ELSE IF o = "def" THEN default0 ELSE NoneV]
    /\ _config = "cfg"
    /\ _default = "def"
    /\ key \in Paths
    /\ value \in Values
    /\ last = Call("init", Returned(NoneV), registry)
    /\ win = NoWindow

Current == heap[_config]

\* the manager has been constructed and not called yet
Fresh == last.op = "init"

DoGet ==
    /\ Fresh
    /\ last' = Call("get", get(Store, key, Fallback), Current)
    /\ UNCHANGED <<heap, _config, _default, registry, default0, key, value, win>>

\* conf.get_from_dict(conf._config, key), the lookup itself
DoGetFromDict ==
    /\ Fresh
    /\ last' = Call("get_from_dict", get_from_dict(Current, key), Current)
    /\ UNCHANGED <<heap, _config, _default, registry, default0, key, value, win>>

DoGetDefault ==
    /\ Fresh
    /\ last' = Call("get_default", get_default(Store, key), Current)
    /\ UNCHANGED <<heap, _config, _default, registry, default0, key, value, win>>

DoContains ==
    /\ Fresh
    /\ last' = Call("contains", contains(Store, key), Current)
    /\ UNCHANGED <<heap, _config, _default, registry, default0, key, value, win>>

DoSet ==
    /\ Fresh
    /\ LET r == set(Store, key, value)
       IN  /\ Commit(r.store)
           /\ last' = Call("set", r, Current)
    /\ UNCHANGED <<default0, key, value, win>>

DoPop ==
    /\ Fresh
    /\ LET r == pop(Store, key)
       IN  /\ Commit(r.store)
           /\ last' = Call("pop", r, Current)
    /\ UNCHANGED <<default0, key, value, win>>

\* del conf[key]
DoDelItem ==
    /\ Fresh
    /\ LET r == pop(Store, key)
       IN  /\ Commit(r.store)
           /\ last' = Call("delitem", [err |-> r.err, val |-> NoneV], Current)
    /\ UNCHANGED <<default0, key, value, win>>

StoreNext ==
    \/ DoGet
    \/ DoGetFromDict
    \/ DoGetDefault
    \/ DoContains
    \/ DoSet
    \/ DoPop
    \/ DoDelItem

StoreSpec == StoreInit /\ [][StoreNext]_vars

(***************************************************************************)
(* Claims about the path accessor, under StoreSpec.                        *)
(***************************************************************************)
Levels == split(key)

\* the node the path's levels but the last lead to, in the tree before the call
ParentBefore == WalkLevels(last.pre, SubSeq(Levels, 1, Len(Levels) - 1))

\* the final segment is an index into an existing sequence ("a.1" on {"a": [10, 20]})
FinalIsIndex ==
    /\ ParentBefore.err = "none"
    /\ ParentBefore.val.kind = "list"
    /\ int(Levels[Len(Levels)]).ok
    /\ int(Levels[Len(Levels)]).n >= 0
    /\ int(Levels[Len(Levels)]).n < Len(ParentBefore.val.l)

\* a mapping on the way to the final segment lacks the next key
IntermediateKeyAbsent ==
    \E i \in 1..(Len(Levels) - 1) :
        WalkLevels(last.pre, SubSeq(Levels, 1, i)).err = "KeyError"

\* C3: after set(p, v2) succeeds get(p) returns v2, and set succeeds when the
\* final segment of p is an index into an existing sequence.
C3_AssignThenResolve ==
    last.op = "set" =>
        /\ last.err = "none" => get(Store, key, Fallback) = Returned(value)
        /\ FinalIsIndex => last.err = "none"

\* C4: get returns the fallback and contains returns false, neither raising,
\* whenever the path does not resolve; contains is true exactly when it does.
C4_GetContainsNeverRaise ==
    LET r == get_from_dict(Current, key)
    IN  /\ (last.op = "get" /\ r.err # "none") =>
                (last.err = "none" /\ last.val = Fallback)
        /\ last.op = "contains" =>
                (last.err = "none" /\ last.val = BoolV(r.err = "none"))

\* C5: a lookup that fails at a mapping or at a sequence (key absent, index out
\* of range, segment not an integer) raises the one lookup error, KeyError;
\* "a.1" on {"a": [10, 20]} returns 20.
C5_OneErrorKind ==
    last.op = "get_from_dict" =>
        /\ last.err \in {"none", "KeyError", "TypeError"}
        /\ (last.pre = TreeList /\ key = <<"a", ".", "1">>) =>
                (last.err = "none" /\ last.val = IntV(20))

\* C6: pop(p) of a path that resolves returns the value that was at p and p is
\* no longer contained; with an intermediate mapping key absent it returns None
\* and leaves the tree as it was.
C6_RemoveThenContains ==
    last.op = "pop" =>
        LET r0 == get_from_dict(last.pre, key)
        IN  /\ r0.err = "none" =>
                    /\ last.err = "none"
                    /\ last.val = r0.val
                    /\ contains(Store, key) = Returned(BoolV(FALSE))
            /\ IntermediateKeyAbsent =>
                    (last.err = "none" /\ last.val = NoneV /\ Current = last.pre)

(***************************************************************************)
(* LifeSpec: any sequence of ConfigManager calls on one manager, with the  *)
(* paths of the calls drawn from LifePaths.                                *)
(***************************************************************************)
\* "b", "a.b"
LifePaths == {<<"b">>, <<"a", ".", "b">>}

LifeInit ==
    /\ registry \in {TreeAB, TreeList}
    /\ default0 = SampleDefault
    /\ heap = [o \in {"cfg", "def", "snap"} |->
                 IF o = "cfg" THEN registry
                 ELSE IF o = "def" THEN default0 ELSE NoneV]
    /\ _config = "cfg"
    /\ _default = "def"
    /\ key = <<>>
    /\ value = NoneV
    /\ last = Call("init", Returned(NoneV), NoneV)
    /\ win = NoWindow

LifeLoad ==
    /\ Commit(load(Store))
    /\ last' = Call("load", Returned(NoneV), NoneV)
    /\ UNCHANGED <<default0, key, value, win>>

LifeSave ==
    /\ Commit(save(Store))
    /\ last' = Call("save", Returned(NoneV), NoneV)
    /\ UNCHANGED <<default0, key, value, win>>

LifeLoadDefaults ==
    /\ Commit(load_defaults(Store))
    /\ last' = Call("load_defaults", Returned(NoneV), NoneV)
    /\ UNCHANGED <<default0, key, value, win>>

LifeSet ==
    \E k \in LifePaths, v \in Values :
        LET r == set(Store, k, v)
        IN  /\ Commit(r.store)
            /\ last' = Call("set", Raised(r.err), NoneV)
            /\ UNCHANGED <<default0, key, value, win>>

LifeDelItem ==
    \E k \in LifePaths :
        LET r == pop(Store, k)
        IN  /\ Commit(r.store)
            /\ last' = Call("delitem", Raised(r.err), NoneV)
            /\ UNCHANGED <<default0, key, value, win>>

\* snapshot = conf.copy(); the caller assigns into the snapshot and drops it
LifeCopyMutate ==
    \E k \in LifePaths, v \in Values :
        LET S == copy(Store)
            r == SetWalk(S.heap["snap"], split(k), v)
            T == [S EXCEPT !.heap["snap"] = r.tree]
        IN  /\ Commit([T EXCEPT !.heap["snap"] = NoneV])
            /\ last' = Call("copy", Returned(NoneV), NoneV)
            /\ UNCHANGED <<default0, key, value, win>>

LifeNext ==
    \/ LifeLoad
    \/ LifeSave
    \/ LifeLoadDefaults
    \/ LifeSet
    \/ LifeDelItem
    \/ LifeCopyMutate

LifeSpec == LifeInit /\ [][LifeNext]_vars

\* C7: the default tree never changes.  Right after load_defaults() a copy()
\* equals the default tree fetched at construction, and in every state
\* get_default(p) returns for every path p what it returned at construction.
C7_DefaultImmutable ==
    /\ last.op = "load_defaults" => copy(Store).heap["snap"] = default0
    /\ \A p \in Paths : get_default(Store, p) = get_from_dict(default0, p)

\* a set() that changed the tree staged by a load_defaults()
C7_Witness ==
    /\ last.op = "set"
    /\ last.err = "none"
    /\ Current # default0
    /\ Current # registry
    /\ get_from_dict(Current, <<"b">>) = get_from_dict(default0, <<"b">>)
    /\ get_from_dict(registry, <<"b">>).err = "KeyError"

(***************************************************************************)
(* ConfigLayout: the bindings a tab registers.  Each input widget appends  *)
(* its update() to widget_updates and connects the control's value-changed *)
(* signal to conf.set.  The session's keys are top-level keys, for which   *)
(* conf.get cannot raise.                                                  *)
(***************************************************************************)
KeyB == <<"b">>

KeyN == <<"n">>

KeyT == <<"t">>

KeyH == <<"h">>

\* number_input's default range
Minimum == 0

Maximum == 99

\* tab(config_window): checkbox("b"), number_input("n"), text_input("t")
Bindings ==
    <<[kind |-> "checkbox", key |-> KeyB],
      [kind |-> "number", key |-> KeyN],
      [kind |-> "text", key |-> KeyT]>>

\* a control as constructed: unchecked, the spin box at its minimum, no text
InitialDisplay ==
    [i \in 1..Len(Bindings) |->
        IF Bindings[i].kind = "checkbox" THEN BoolV(FALSE)
        ELSE IF Bindings[i].kind = "number" THEN IntV(Minimum)
        ELSE StrV("")]

\* a float, held in thousandths: FloatV(1500) is 1.5
Milli == 1000

FloatV(n) == Node("float", "", n, NoKids, <<>>)

\* a number (int, bool or float) in thousandths
Thousandths(val) == IF val.kind = "float" THEN val.n ELSE val.n * Milli

\* number_input's default precision: setDecimals(precision)
Precision == 2

RECURSIVE Pow10(_)
Pow10(k) == IF k = 0 THEN 1 ELSE 10 * Pow10(k - 1)

\* QDoubleSpinBox.setValue rounds to the decimals it displays (n >= 0)
Rounded(n) ==
    ((n + (Milli \div Pow10(Precision)) \div 2) \div (Milli \div Pow10(Precision)))
        * (Milli \div Pow10(Precision))

\* a value as Python's == sees it: True == 1, 1.0 == 1, containers by items
RECURSIVE Py(_)
Py(t) ==
    IF t.kind = "bool" THEN IntV(t.n)
    ELSE IF t.kind = "float" /\ t.n % Milli = 0 THEN IntV(t.n \div Milli)
    ELSE IF t.kind = "map" THEN MapV([k \in DOMAIN t.m |-> Py(t.m[k])])
    ELSE IF t.kind = "list" THEN ListV([i \in 1..Len(t.l) |-> Py(t.l[i])])
    ELSE t

\* dropdown(key, labels, values): the values of the three items
DropValues == <<StrV("a"), StrV("b"), StrV("c")>>

\* values.index(val): the first position whose item == val, from 1; 0 for
\* ValueError
Index(values, val) ==
    IF \E i \in 1..Len(values) : Py(values[i]) = Py(val)
    THEN CHOOSE i \in 1..Len(values) :
            /\ Py(values[i]) = Py(val)
            /\ \A j \in 1..(i - 1) : Py(values[j]) # Py(val)
    ELSE 0

\* the isinstance and range checks of update(): "" when the value passes,
\* else the expectation InvalidConfigValueError is raised with.  Kind
\* "decimal" is number_input(decimal=True).
Expectation(b, val) ==
    IF b.kind = "checkbox" THEN
        IF val.kind = "bool" THEN "" ELSE "boolean"
    ELSE IF b.kind = "number" THEN
        IF val.kind \notin {"int", "bool"} THEN "integer number"
        ELSE IF val.n < Minimum THEN "integer number greater or equal to 0"
        ELSE IF val.n > Maximum THEN "integer number lesser or equal to 99"
        ELSE ""
    ELSE IF b.kind = "decimal" THEN
        IF val.kind \notin {"int", "bool", "float"} THEN "number"
        ELSE IF Thousandths(val) < Minimum * Milli
             THEN "integer number greater or equal to 0"
        ELSE IF Thousandths(val) > Maximum * Milli
             THEN "integer number lesser or equal to 99"
        ELSE ""
    ELSE IF b.kind = "dropdown" THEN
        IF Index(DropValues, val) = 0
        THEN "any value in list ['a', 'b', 'c']" ELSE ""
    ELSE IF b.kind = "path" THEN
        IF val.kind = "str" THEN "" ELSE "string file path"
    ELSE
        IF val.kind = "str" THEN "" ELSE "string"

\* what the control shows after setChecked / setValue / setCurrentIndex /
\* setText of val
Shown(b, val) ==
    IF b.kind = "checkbox" THEN BoolV(val.n = 1)
    ELSE IF b.kind = "number" THEN IntV(val.n)
    ELSE IF b.kind = "decimal" THEN FloatV(Rounded(Thousandths(val)))
    ELSE IF b.kind = "dropdown" THEN IntV(Index(DropValues, val) - 1)
    ELSE val

\* InvalidConfigValueError(key, expected, value); NoError when none is raised
InvalidConfigValueError(k, expected, val) ==
    [key |-> k, expected |-> expected, value |-> val]

NoError == InvalidConfigValueError(<<>>, "", NoneV)

Ev(name, arg) == <<name, arg>>

\* the control's setter (setChecked / setValue / setText): a control set to a
\* value it does not show yet emits its value-changed signal, whose handler
\* is conf.set(key, <the value now shown>)
SetControl(i, S, display, shown) ==
    IF display[i] = shown THEN
        [error |-> NoError, store |-> S, display |-> display]
    ELSE
        [error |-> NoError, store |-> set(S, Bindings[i].key, shown).store,
         display |-> [display EXCEPT ![i] = shown]]

\* update() once conf.get returned val: the check, then the setter
Validate(i, S, display, val, expected) ==
    IF expected # "" THEN
        [error |-> InvalidConfigValueError(Bindings[i].key, expected, val),
         store |-> S, display |-> display]
    ELSE SetControl(i, S, display, Shown(Bindings[i], val))

\* the value update() reads: conf.get(key)
Pulled(i, S) == get(S, Bindings[i].key, NoneV).val

\* one widget_update(): the store and the displays after it, or the error
Pull(i, S, display) ==
    Validate(i, S, display, Pulled(i, S), Expectation(Bindings[i], Pulled(i, S)))

\* the events e, then what happened after them
After(e, rest) == [rest EXCEPT !.log = e \o rest.log]

RECURSIVE RunUpdates(_, _, _, _)
\* a loop that notes the error and goes on with the remaining callbacks
Continue_on(updates, j, S, display, r) ==
    IF r.error # NoError THEN
        [After(<<Ev("pull", updates[j]), Ev("raise", updates[j])>>,
               RunUpdates(updates, j + 1, S, display))
         EXCEPT !.error = r.error]
    ELSE After(<<Ev("pull", updates[j])>>,
               RunUpdates(updates, j + 1, r.store, r.display))

\* the loop once widget_updates[j] has run with outcome r
Continue(updates, j, S, display, r) ==
    IF r.error # NoError THEN
        [log |-> <<Ev("pull", updates[j]), Ev("raise", updates[j])>>,
         error |-> r.error, store |-> S, display |-> display]
    ELSE After(<<Ev("pull", updates[j])>>,
               RunUpdates(updates, j + 1, r.store, r.display))

\* the for loop of update_widgets over widget_updates[j..]: the events in
\* order, the error that ended it, the store and the displays after it
RunUpdates(updates, j, S, display) ==
    IF j > Len(updates) THEN
        [log |-> <<>>, error |-> NoError, store |-> S, display |-> display]
    ELSE Continue(updates, j, S, display, Pull(updates[j], S, display))

\* self._on_save_hook: two hooks a tab registered with execute_on_save, each
\* writing its own number under "h"
Hooks == <<1, 2>>

\* the j-th hook's call
Hook(hooks, j, S) == set(S, KeyH, IntV(hooks[j])).store

\* for hook in self._on_save_hook: hook()
RECURSIVE RunHooks(_, _, _)
RunHooks(hooks, j, S) ==
    IF j > Len(hooks) THEN [log |-> <<>>, error |-> NoError, store |-> S]
    ELSE After(<<Ev("hook", hooks[j])>>, RunHooks(hooks, j + 1, Hook(hooks, j, S)))

(***************************************************************************)
(* Spec: ConfigWindow sessions over one ConfigManager.                     *)
(*                                                                         *)
(* win.state is where the user interface waits for input:                  *)
(*   "Closed"      no window; open_config may be invoked                   *)
(*   "Open"        the ConfigWindow is shown (config_window.exec_())       *)
(*   "Advanced"    on_advanced's modal ConfigEditor is shown               *)
(*   "Recovering"  update_widgets' modal ConfigEditor and the "Invalid     *)
(*                 Config" message with its "Quit Config" button are shown *)
(* win.caller is the handler whose update_widgets call is on the stack     *)
(* while an editor is shown.  The other fields of win after display are    *)
(* history: what the session and its last handler did (openT the registry  *)
(* when the session opened, preClose the current tree when the closing     *)
(* handler began, log the calls of the last handler, passTree and error    *)
(* the tree and the outcome of its update_widgets loop).                   *)
(***************************************************************************)
\* {"b": true, "n": 5, "t": "x"}
TreeGood ==
    MapV([x \in {KeyB, KeyN, KeyT} |->
            IF x = KeyB THEN BoolV(TRUE) ELSE IF x = KeyN THEN IntV(5) ELSE StrV("x")])

\* {"b": "s", "n": 150, "t": "x"}: the first and the second binding invalid
TreeBadB == MapPut(MapPut(TreeGood, KeyB, StrV("s")), KeyN, IntV(150))

\* {"b": true, "n": 150}: the second and the third binding invalid
TreeBadN == MapDel(MapPut(TreeGood, KeyN, IntV(150)), KeyT)

\* {"b": true, "n": 5}: the third binding invalid
TreeBadT == MapDel(TreeGood, KeyT)

\* {"b": false, "n": true, "t": "x"}
TreeBoolN == MapPut(MapPut(TreeGood, KeyB, BoolV(FALSE)), KeyN, BoolV(TRUE))

\* what meta.json may hold, and what the user may type into the raw editor
SessionTrees == {TreeGood, TreeBadB, TreeBadN, TreeBadT, TreeBoolN}

\* config.json: {"b": false, "n": 0, "t": ""}, or a stale one without "t"
DefaultGood ==
    MapV([x \in {KeyB, KeyN, KeyT} |->
            IF x = KeyB THEN BoolV(FALSE) ELSE IF x = KeyN THEN IntV(0) ELSE StrV("")])

DefaultStale == MapDel(DefaultGood, KeyT)

\* what the user may enter into the i-th control
UserInputs(i) ==
    IF Bindings[i].kind = "checkbox" THEN {BoolV(TRUE), BoolV(FALSE)}
    ELSE IF Bindings[i].kind = "number" THEN {IntV(5)}
    ELSE {StrV("x")}

NoSession ==
    [state |-> "Closed", caller |-> "none", widget_updates |-> <<>>,
     on_save_hook |-> <<>>, display |-> InitialDisplay,
     openT |-> NoneV, editor |-> "none", closedBy |-> "none",
     abandoned |-> FALSE, preClose |-> NoneV, log |-> <<>>,
     passTree |-> NoneV, error |-> NoError]

\* ConfigManager.__init__ has run; no window yet
Init ==
    /\ registry \in SessionTrees
    /\ default0 \in {DefaultGood, DefaultStale}
    /\ heap = [o \in {"cfg", "def", "snap"} |->
                 IF o = "cfg" THEN registry
                 ELSE IF o = "def" THEN default0 ELSE NoneV]
    /\ _config = "cfg"
    /\ _default = "def"
    /\ key = <<>>
    /\ value = NoneV
    /\ last = Call("init", Returned(NoneV), NoneV)
    /\ win = NoSession

\* the window as QWidget.close() leaves it (closeEvent has run): the session's
\* history is kept, the widgets are gone
Close(W, how) ==
    [W EXCEPT !.state = "Closed", !.caller = "none", !.widget_updates = <<>>,
              !.on_save_hook = <<>>, !.display = InitialDisplay,
              !.closedBy = how]

\* a closeEvent that forgets to reload
closeEvent_keep(S) == S

\* closeEvent: self.conf.load(), evt.accept()
closeEvent(S) == load(S)

\* where control is once update_widgets has returned to the handler that
\* called it.  open_config goes on to config_window.exec_(), which shows the
\* window, whether or not quit() closed it; on_reset and on_advanced return to
\* the event loop of the window, which is gone if quit() closed it.
ReturnTo(W, caller, closed) ==
    IF caller = "on_open" THEN
        [W EXCEPT !.state = "Open", !.caller = "none",
                  !.log = Append(@, Ev("exec_", 0))]
    ELSE IF closed THEN Close(W, "quit")
    ELSE [W EXCEPT !.state = "Open", !.caller = "none"]

\* update_widgets, up to the point where it returns or its except branch
\* waits in advanced.exec_()
\* the except branch up to advanced.exec_(): the raw editor and the message
Recover(W, caller) ==
    [W EXCEPT !.state = "Recovering", !.caller = caller,
              !.editor = IF @ = "none" THEN "opened" ELSE @,
              !.log = Append(@, Ev("advanced_window", 0))]

\* the window after the loop with outcome r over the tree `pass`
Updated(W, r, pass) ==
    [W EXCEPT !.display = r.display, !.log = @ \o r.log,
              !.passTree = pass, !.error = r.error]

\* update_widgets once its loop ended with outcome r
Handled(W, caller, closed, r, pass) ==
    IF r.error # NoError
    THEN [store |-> r.store, win |-> Recover(Updated(W, r, pass), caller)]
    ELSE [store |-> r.store, win |-> ReturnTo(Updated(W, r, pass), caller, closed)]

\* update_widgets, up to the point where it returns or its except branch
\* waits in advanced.exec_()
update_widgets(S, W, caller, closed) ==
    Handled(W, caller, closed, RunUpdates(W.widget_updates, 1, S, W.display),
            S.heap[S.config])

Do(r) == Commit(r.store) /\ win' = r.win

Rest == <<default0, key, value, last>>

\* open_config: ConfigWindow(self), the tabs, on_open(), exec_()
open_config ==
    /\ win.state = "Closed"
    /\ \E r \in {update_widgets(Store,
                         [NoSession EXCEPT !.widget_updates = <<1, 2, 3>>,
                                           !.on_save_hook = Hooks,
                                           !.openT = registry],
                         "on_open", FALSE)} : Do(r)
    /\ UNCHANGED Rest

\* the user changes the i-th control: its value-changed signal calls conf.set
Push ==
    /\ win.state = "Open"
    /\ \E i \in 1..Len(Bindings) : \E v \in UserInputs(i) :
        /\ v # win.display[i]
        /\ Commit(set(Store, Bindings[i].key, v).store)
        /\ win' = [win EXCEPT !.display[i] = v, !.log = <<Ev("push", i)>>,
                              !.passTree = NoneV, !.error = NoError]
    /\ UNCHANGED Rest

\* a Save that persists before its hooks have run
on_save_early ==
    /\ win.state = "Open"
    /\ \E h \in {RunHooks(win.on_save_hook, 1, save(Store))} :
        /\ Commit(closeEvent(h.store))
        /\ win' = [Close(win, "save") EXCEPT
                     !.log = <<Ev("save", 0)>> \o h.log \o <<Ev("close", 0), Ev("load", 0)>>,
                     !.preClose = Current,
                     !.passTree = NoneV, !.error = NoError]
    /\ UNCHANGED Rest

on_save ==
    /\ win.state = "Open"
    /\ \E h \in {RunHooks(win.on_save_hook, 1, Store)} :
        /\ Commit(closeEvent(save(h.store)))
        /\ win' = [Close(win, "save") EXCEPT
                     !.log = h.log \o <<Ev("save", 0), Ev("close", 0), Ev("load", 0)>>,
                     !.preClose = Current,
                     !.passTree = NoneV, !.error = NoError]
    /\ UNCHANGED Rest

on_cancel ==
    /\ win.state = "Open"
    /\ Commit(closeEvent(Store))
    /\ win' = [Close(win, "cancel") EXCEPT
                 !.log = <<Ev("close", 0), Ev("load", 0)>>,
                 !.preClose = Current,
                 !.passTree = NoneV, !.error = NoError]
    /\ UNCHANGED Rest

\* the window is dismissed without any button: Qt delivers closeEvent
Dismiss ==
    /\ win.state = "Open"
    /\ Commit(closeEvent(Store))
    /\ win' = [Close(win, "dismiss") EXCEPT
                 !.log = <<Ev("close", 0), Ev("load", 0)>>,
                 !.preClose = Current,
                 !.passTree = NoneV, !.error = NoError]
    /\ UNCHANGED Rest

on_reset ==
    /\ win.state = "Open"
    /\ \E r \in {update_widgets(load_defaults(Store),
                         [win EXCEPT !.log = <<Ev("load_defaults", 0)>>],
                         "on_reset", FALSE)} : Do(r)
    /\ UNCHANGED Rest

\* on_advanced up to advanced_window().exec_()
on_advanced ==
    /\ win.state = "Open"
    /\ win' = [win EXCEPT !.state = "Advanced", !.caller = "on_advanced",
                          !.editor = IF @ = "none" THEN "opened" ELSE @,
                          !.log = <<Ev("advanced_window", 0)>>,
                          !.passTree = NoneV, !.error = NoError]
    /\ UNCHANGED <<heap, _config, _default, registry>>
    /\ UNCHANGED Rest

\* aqt.addons.ConfigEditor.accept: the text is written to the registry
ConfigEditorAccept(S, text) == writeConfig(S, text)

\* the raw editor is confirmed with `text`; exec_() returns, and on_advanced
\* (or update_widgets) goes on with self.conf.load(); self.update_widgets()
EditorAccept ==
    /\ win.state \in {"Advanced", "Recovering"}
    /\ \E text \in SessionTrees \cup {Current} :
        \E r \in {update_widgets(load(ConfigEditorAccept(Store, text)),
                          [win EXCEPT
                             !.editor = IF text # Current THEN "changed"
                                        ELSE IF @ = "changed" THEN @
                                        ELSE "unchanged",
                             !.log = <<Ev("writeConfig", 0), Ev("load", 0)>>],
                          win.caller, FALSE)} : Do(r)
    /\ UNCHANGED Rest

\* a raw editor that is closed without confirming, after which the widgets
\* are updated from the staged tree
EditorReject_stale ==
    /\ win.state \in {"Advanced", "Recovering"}
    /\ \E r \in {update_widgets(Store, [win EXCEPT !.log = <<Ev("load", 0)>>],
                                win.caller, FALSE)} : Do(r)
    /\ UNCHANGED Rest

\* the raw editor is closed without confirming
EditorReject ==
    /\ win.state \in {"Advanced", "Recovering"}
    /\ \E r \in {update_widgets(load(Store), [win EXCEPT !.log = <<Ev("load", 0)>>],
                         win.caller, FALSE)} : Do(r)
    /\ UNCHANGED Rest

\* "Quit Config": quit() closes the message, the editor and the window;
\* advanced.exec_() returns, then self.conf.load(); self.update_widgets()
QuitConfig ==
    /\ win.state = "Recovering"
    /\ \E r \in {update_widgets(load(closeEvent(Store)),
                         [win EXCEPT
                            !.widget_updates = <<>>,
                            !.abandoned = TRUE,
                            !.preClose = Current,
                            !.log = <<Ev("quit", 0), Ev("close", 0),
                                      Ev("load", 0), Ev("load", 0)>>],
                         win.caller, TRUE)} : Do(r)
    /\ UNCHANGED Rest

Next ==
    \/ open_config
    \/ Push
    \/ on_save
    \/ on_cancel
    \/ Dismiss
    \/ on_reset
    \/ on_advanced
    \/ EditorAccept
    \/ EditorReject
    \/ QuitConfig

Spec == Init /\ [][Next]_vars

(***************************************************************************)
(* Claims about the session.                                               *)
(***************************************************************************)
\* the session closed by Cancel, by dismissing the window or by "Quit Config"
ClosedWithoutSave ==
    win.state = "Closed" /\ win.closedBy \in {"cancel", "dismiss", "quit"}

\* C1: in a session in which the raw editor was never confirmed, Cancel or
\* any other close than Save leaves the current tree equal to the persisted
\* configuration the session was opened on
C1_CancelRestores ==
    (ClosedWithoutSave /\ win.editor \in {"none", "opened"})
        => Current = win.openT

\* opened on {"b": true, "n": 5, "t": "x"}, the checkbox unchecked, Cancel
C1_Witness ==
    /\ win.state = "Closed"
    /\ win.closedBy = "cancel"
    /\ win.editor = "none"
    /\ win.openT = TreeGood
    /\ win.preClose = MapPut(TreeGood, KeyB, BoolV(FALSE))
    /\ Current = TreeGood

\* C2: a session that closes without Save, whatever happened before the
\* close (Restore Defaults, the raw editor opened, the raw editor confirmed
\* with its text unchanged), leaves the persisted configuration as it was
\* when the session opened
C2_OnlySavePersists ==
    (ClosedWithoutSave /\ win.editor \in {"none", "opened", "unchanged"})
        => registry = win.openT

\* the value update() of the i-th binding reads from tree
ValueIn(tree, i) ==
    ExceptKeyError(get_from_dict(tree, Bindings[i].key), NoneV).val

\* the bindings whose value in tree fails the binding's check
Invalid(tree) ==
    {i \in 1..Len(Bindings) : Expectation(Bindings[i], ValueIn(tree, i)) # ""}

\* the arguments of the events called `name` in log, in order
RECURSIVE Called(_, _)
Called(log, name) ==
    IF log = <<>> THEN <<>>
    ELSE IF Head(log)[1] = name THEN <<Head(log)[2]>> \o Called(Tail(log), name)
    ELSE Called(Tail(log), name)

\* C8: a pass of update_widgets that raises has called the callbacks of the
\* bindings 1..k in registration order and no other, k being the first
\* binding invalid in the tree the pass began on, and raises for k's key
C8_StopsAtFirstInvalid ==
    win.error # NoError =>
        /\ Invalid(win.passTree) # {}
        /\ \E k \in Invalid(win.passTree) :
            /\ \A i \in Invalid(win.passTree) : k <= i
            /\ Called(win.log, "pull") = [i \in 1..k |-> i]
            /\ Called(win.log, "raise") = <<k>>
            /\ win.error.key = Bindings[k].key

\* the second of three bindings is the first invalid one, the third is
\* invalid too
C8_Witness ==
    /\ win.error # NoError
    /\ Invalid(win.passTree) = {2, 3}
    /\ Called(win.log, "pull") = <<1, 2>>

\* C9: Save has run the hooks once each in registration order, then save(),
\* then close; the registry holds the whole current tree as the last hook
\* left it
C9_SaveAfterHooks ==
    (win.state = "Closed" /\ win.closedBy = "save") =>
        /\ win.log = <<Ev("hook", 1), Ev("hook", 2), Ev("save", 0),
                       Ev("close", 0), Ev("load", 0)>>
        /\ registry = MapPut(win.preClose, KeyH, IntV(Hooks[Len(Hooks)]))
        /\ Current = registry

\* Save after the checkbox was unchecked: the staged edit and the hooks'
\* write are persisted together
C9_Witness ==
    /\ win.state = "Closed"
    /\ win.closedBy = "save"
    /\ win.openT = TreeGood
    /\ win.preClose = MapPut(TreeGood, KeyB, BoolV(FALSE))
    /\ registry = MapPut(MapPut(TreeGood, KeyB, BoolV(FALSE)), KeyH, IntV(2))

\* C10: once "Quit Config" was chosen the session is closed by it: the window
\* is not shown again, no callback is called and nothing is saved
C10_QuitCloses ==
    win.abandoned =>
        /\ win.state = "Closed"
        /\ win.closedBy = "quit"
        /\ Called(win.log, "pull") = <<>>
        /\ Called(win.log, "save") = <<>>

\* the positions in log of the events called `name`
Positions(log, name) == {i \in 1..Len(log) : log[i][1] = name}

\* C11: when the raw editor of the recovery returns without "Quit Config",
\* load() runs before any callback, the new pass starts at the first
\* binding of the reloaded tree, and a pass that raises again shows the
\* editor again instead of resuming the window
C11_ReloadThenRetry ==
    [][(win.state = "Recovering" /\ ~win'.abandoned) =>
          /\ Positions(win'.log, "load") # {}
          /\ \A i \in Positions(win'.log, "load") :
                \A j \in Positions(win'.log, "pull") : i < j
          /\ win'.passTree = registry'
          /\ \E k \in 1..Len(Bindings) :
                Called(win'.log, "pull") = [i \in 1..k |-> i]
          /\ (win'.error # NoError) = (win'.state = "Recovering")
          /\ (win'.error = NoError) = (win'.state = "Open")]_vars

\* the editor was confirmed with a text whose second binding is invalid, in
\* the recovery of a session that failed on open: the pass started over at
\* the first binding and the editor is shown again
C11_Witness ==
    /\ win.state = "Recovering"
    /\ win.caller = "on_open"
    /\ Head(win.log) = Ev("writeConfig", 0)
    /\ Called(win.log, "pull") = <<1, 2>>
    /\ win.passTree = registry

(***************************************************************************)
(* WidgetSpec: one input widget of a ConfigLayout bound to the key "k",    *)
(* over a ConfigManager whose tree holds a drawn value there (or none).    *)
(* win.ctl is what the control displays: shown (checked / current index /  *)
(* value / text), swatch (the value formatted into the button's style      *)
(* sheet) and dialog (the QColorDialog's current color); win.before is     *)
(* win.ctl when the last operation began.  win.exc is the exception the    *)
(* last operation raised, win.error its InvalidConfigValueError, win.ops   *)
(* the number of operations made so far.                                   *)
(***************************************************************************)
KeyK == <<"k">>

Kinds == {"checkbox", "dropdown", "text", "number", "decimal", "color", "path"}

\* strings QColor.setNamedColor makes a valid color of
ValidColors == {"#ff0000", "#00ff00"}

\* values a persisted configuration may hold under "k"
WidgetValues ==
    {BoolV(TRUE), BoolV(FALSE), IntV(5), IntV(150), IntV(0 - 1),
     FloatV(1500), FloatV(1234), FloatV(99500),
     StrV("a"), StrV("z"), StrV("#ff0000"), StrV("/d/f"),
     NoneV, EmptyMap, ListV(<<IntV(1)>>)}

WidgetTrees == {EmptyMap} \cup {M1(KeyK, v) : v \in WidgetValues}

\* the control as the widget's constructor leaves it
InitCtl(kind) ==
    [shown |-> IF kind = "checkbox" THEN BoolV(FALSE)
               ELSE IF kind = "dropdown" THEN IntV(0)
               ELSE IF kind = "number" THEN IntV(Minimum)
               ELSE IF kind = "decimal" THEN FloatV(Minimum * Milli)
               ELSE IF kind = "color" THEN NoneV
               ELSE StrV(""),
     swatch |-> NoneV, dialog |-> "#ffffff"]

\* the outcome of a widget operation
Result(exc, error, S, ctl) == [exc |-> exc, error |-> error, store |-> S, ctl |-> ctl]

\* the argument the control's value-changed signal passes to conf.set
Emitted(kind, shown) ==
    IF kind = "dropdown" THEN DropValues[shown.n + 1] ELSE shown

\* the setter of the control; path_input's line edit has no handler connected
WSetControl(kind, S, ctl, shown) ==
    IF ctl.shown = shown THEN Result("none", NoError, S, ctl)
    ELSE IF kind = "path"
         THEN Result("none", NoError, S, [ctl EXCEPT !.shown = shown])
    ELSE Result("none", NoError, set(S, KeyK, Emitted(kind, shown)).store,
                [ctl EXCEPT !.shown = shown])

\* update() of checkbox, dropdown, text_input, number_input and path_input
\* once conf.get returned val
WValidate(kind, S, ctl, val, expected) ==
    IF expected # "" THEN
        Result("InvalidConfigValueError",
               InvalidConfigValueError(KeyK, expected, val), S, ctl)
    ELSE WSetControl(kind, S, ctl, Shown([kind |-> kind, key |-> KeyK], val))

\* set_color(rgb): the style sheet first, then the check, then the dialog
set_color(S, ctl, rgb) ==
    IF rgb.kind # "str" THEN
        Result("TypeError", NoError, S, [ctl EXCEPT !.swatch = rgb])
    ELSE IF rgb.s \notin ValidColors THEN
        Result("InvalidConfigValueError",
               InvalidConfigValueError(KeyK, "rgb hex color string", rgb),
               S, [ctl EXCEPT !.swatch = rgb])
    ELSE Result("none", NoError, S, [ctl EXCEPT !.swatch = rgb, !.dialog = rgb.s])

\* value = self.conf.get(key)
WPulled(S) == get(S, KeyK, NoneV).val

\* the widget's update()
update(kind, S, ctl) ==
    IF kind = "color" THEN set_color(S, ctl, WPulled(S))
    ELSE WValidate(kind, S, ctl, WPulled(S),
                   Expectation([kind |-> kind, key |-> KeyK], WPulled(S)))

\* color_input's save(color): color.name(QColor.HexRgb) is rgb
save_color(S, ctl, rgb) == set_color(set(S, KeyK, StrV(rgb)).store, ctl, StrV(rgb))

\* a get_path that forgets to call update()
get_path_noupdate(S, ctl, path) ==
    IF WPulled(S).kind # "str" THEN Result("TypeError", NoError, S, ctl)
    ELSE IF path = "" THEN Result("none", NoError, S, ctl)
    ELSE Result("none", NoError, set(S, KeyK, StrV(path)).store, ctl)

\* path_input's get_path(): Path(val) needs a string; the chooser returns
\* path, "" when it is cancelled
get_path(S, ctl, path) ==
    IF WPulled(S).kind # "str" THEN Result("TypeError", NoError, S, ctl)
    ELSE IF path = "" THEN Result("none", NoError, S, ctl)
    ELSE update("path", set(S, KeyK, StrV(path)).store, ctl)

\* what the user may enter into a control of this kind
WidgetInputs(kind) ==
    IF kind = "checkbox" THEN {BoolV(TRUE), BoolV(FALSE)}
    ELSE IF kind = "dropdown" THEN {IntV(0), IntV(2)}
    ELSE IF kind = "number" THEN {IntV(7)}
    ELSE IF kind = "decimal" THEN {FloatV(2500)}
    ELSE IF kind = "text" THEN {StrV("y")}
    ELSE {}

\* paths the file chooser may return; "" when cancelled
ChosenPaths == {"", "/x/y"}

\* the operations one run of WidgetSpec makes on its widget
MaxOps == 3

Widget(kind, ctl) ==
    [state |-> "Widget", kind |-> kind, ctl |-> ctl, before |-> ctl,
     exc |-> "none", error |-> NoError, ops |-> 0]

WidgetInit ==
    /\ registry \in WidgetTrees
    /\ default0 = EmptyMap
    /\ heap = [o \in {"cfg", "def", "snap"} |->
                 IF o = "cfg" THEN registry
                 ELSE IF o = "def" THEN default0 ELSE NoneV]
    /\ _config = "cfg"
    /\ _default = "def"
    /\ key = KeyK
    /\ value = NoneV
    /\ last = Call("init", Returned(NoneV), registry)
    /\ \E kind \in Kinds : win = Widget(kind, InitCtl(kind))

\* the state after a widget operation op with outcome r
WDone(op, r) ==
    /\ win.ops < MaxOps
    /\ Commit(r.store)
    /\ win' = [win EXCEPT !.ctl = r.ctl, !.before = win.ctl,
                          !.exc = r.exc, !.error = r.error, !.ops = @ + 1]
    /\ last' = Call(op, Raised(r.exc), Current)
    /\ UNCHANGED <<default0, key>>

\* a refresh calls the widget's update()
WUpdate ==
    /\ \E r \in {update(win.kind, Store, win.ctl)} : WDone("update", r)
    /\ value' = NoneV

\* other code (a hook, another widget) stores v under the key
WSet ==
    \E v \in WidgetValues :
        /\ Current # M1(KeyK, v)
        /\ WDone("set", Result("none", NoError, set(Store, KeyK, v).store, win.ctl))
        /\ value' = v

\* the user changes the control: its signal calls conf.set
WEdit ==
    \E v \in WidgetInputs(win.kind) :
        /\ v # win.ctl.shown
        /\ WDone("edit", Result("none", NoError,
                                set(Store, KeyK, Emitted(win.kind, v)).store,
                                [win.ctl EXCEPT !.shown = v]))
        /\ value' = v

\* the user picks a color in the QColorDialog: colorSelected calls save
WPick ==
    /\ win.kind = "color"
    /\ \E rgb \in ValidColors :
        /\ \E r \in {save_color(Store, win.ctl, rgb)} : WDone("save", r)
        /\ value' = StrV(rgb)

\* the user clicks Browse
WBrowse ==
    /\ win.kind = "path"
    /\ \E path \in ChosenPaths :
        /\ \E r \in {get_path(Store, win.ctl, path)} : WDone("get_path", r)
        /\ value' = StrV(path)

WidgetNext ==
    \/ WUpdate
    \/ WSet
    \/ WEdit
    \/ WPick
    \/ WBrowse

WidgetSpec == WidgetInit /\ [][WidgetNext]_vars

(***************************************************************************)
(* Claims about the widgets.                                               *)
(***************************************************************************)
\* the value stored under "k" in a tree, None when the key is absent
StoredK(tree) == IF KeyK \in DOMAIN tree.m THEN tree.m[KeyK] ELSE NoneV

\* the value is an integer (or, in decimal mode, any number)
IsNumber(kind, val) ==
    IF kind = "decimal" THEN val.kind \in {"int", "float"} ELSE val.kind = "int"

\* the description a rejected value is reported with
NumberDescription(kind, val) ==
    IF ~IsNumber(kind, val) THEN
        IF kind = "decimal" THEN "number" ELSE "integer number"
    ELSE IF Thousandths(val) < Minimum * Milli
         THEN "integer number greater or equal to 0"
    ELSE "integer number lesser or equal to 99"

\* C12: the number binding's update() accepts the stored value exactly when
\* it is an integer (in decimal mode, a number) within [minimum, maximum];
\* every other value, a boolean included, raises InvalidConfigValueError
\* with the description of what is wrong
C12_NumberAccepts ==
    (last.op = "update" /\ win.kind \in {"number", "decimal"}) =>
        /\ (win.exc = "none") =
              (/\ IsNumber(win.kind, StoredK(last.pre))
               /\ Thousandths(StoredK(last.pre)) >= Minimum * Milli
               /\ Thousandths(StoredK(last.pre)) <= Maximum * Milli)
        /\ win.exc \in {"none", "InvalidConfigValueError"}
        /\ win.exc = "InvalidConfigValueError" =>
              win.error = InvalidConfigValueError(
                              KeyK,
                              NumberDescription(win.kind, StoredK(last.pre)),
                              StoredK(last.pre))

\* C13: for every kind of binding, an update() whose stored value is
\* rejected (an absent key and "z" for the dropdown are) raises
\* InvalidConfigValueError with the binding's key and the stored value, and
\* leaves everything the control displays, the color swatch included, as
\* it was
C13_RejectLeavesControl ==
    last.op = "update" =>
        /\ KeyK \notin DOMAIN last.pre.m => win.exc # "none"
        /\ (win.kind = "dropdown" /\ StoredK(last.pre) = StrV("z"))
              => win.exc # "none"
        /\ win.exc # "none" =>
              /\ win.exc = "InvalidConfigValueError"
              /\ win.error.key = KeyK
              /\ win.error.value = StoredK(last.pre)
              /\ win.ctl = win.before

\* C14: when get_path's chooser is shown (the stored value is a string) and
\* returns a path, the path is stored under the key and shown by the line
\* edit; when it is cancelled the tree and the line edit stay as they were;
\* neither raises
C14_ChooserPushesAndPulls ==
    (last.op = "get_path" /\ StoredK(last.pre).kind = "str") =>
        /\ win.exc = "none"
        /\ value # StrV("") =>
              /\ get(Store, KeyK, NoneV) = Returned(value)
              /\ win.ctl.shown = value
        /\ value = StrV("") =>
              /\ Current = last.pre
              /\ win.ctl = win.before

\* "/d/f" was stored and shown, the chooser returned "/x/y"
C14_Witness ==
    /\ last.op = "get_path"
    /\ last.pre = M1(KeyK, StrV("/d/f"))
    /\ win.before.shown = StrV("/d/f")
    /\ value = StrV("/x/y")
    /\ win.ctl.shown = StrV("/x/y")
    /\ Current = M1(KeyK, StrV("/x/y"))

(***************************************************************************)
(* Further claims about the store (StoreSpec).                             *)
(***************************************************************************)
\* post is pre changed at the location levels address and nowhere else: on
\* the way every mapping keeps its other keys and every sequence its other
\* elements, an absent key holds a mapping with nothing but the next
\* segment, and the final segment holds v
RECURSIVE OnlyAt(_, _, _, _)
OnlyAt(pre, post, levels, v) ==
    IF levels = <<>> THEN post = v
    ELSE IF pre.kind = "map" THEN
        /\ post.kind = "map"
        /\ DOMAIN post.m = DOMAIN pre.m \cup {Head(levels)}
        /\ \A j \in DOMAIN pre.m \ {Head(levels)} : post.m[j] = pre.m[j]
        /\ OnlyAt(IF Head(levels) \in DOMAIN pre.m THEN pre.m[Head(levels)]
                  ELSE EmptyMap,
                  post.m[Head(levels)], Tail(levels), v)
    ELSE IF pre.kind = "list" THEN
        /\ post.kind = "list"
        /\ Len(post.l) = Len(pre.l)
        /\ int(Head(levels)).ok
        /\ ListPos(pre, int(Head(levels)).n) # 0
        /\ \A j \in 1..Len(pre.l) :
              IF j = ListPos(pre, int(Head(levels)).n)
              THEN OnlyAt(pre.l[j], post.l[j], Tail(levels), v)
              ELSE post.l[j] = pre.l[j]
    ELSE FALSE

\* C15: a set(p, v) that returns has changed the tree at the location of p
\* only, creating a mapping (never a sequence) at each absent intermediate
\* key; a set that raises leaves the tree as it was
C15_SetFrame ==
    last.op = "set" =>
        /\ last.err = "none" => OnlyAt(last.pre, Current, Levels, value)
        /\ last.err # "none" => Current = last.pre

\* {"a": {"b": 1}} with set("a.5", 99) becomes {"a": {"b": 1, "5": 99}}
C15_Witness ==
    /\ last.op = "set"
    /\ last.err = "none"
    /\ last.pre = TreeAB
    /\ key = <<"a", ".", "5">>
    /\ value = IntV(99)
    /\ Current = M1(<<"a">>, M2(<<"b">>, IntV(1), <<"5">>, IntV(99)))

\* the path is empty or has an empty segment ("", "a.", ".a", "a..b")
HasEmptySegment == \E i \in 1..Len(Levels) : Levels[i] = <<>>

\* C16: the empty path, and a path with an empty segment, does not resolve
\* in any non-empty tree, also not when the root mapping has the key "":
\* get_from_dict raises instead of returning a value
C16_EmptySegmentNotFound ==
    (last.op = "get_from_dict" /\ HasEmptySegment /\ last.pre # EmptyMap)
        => last.err # "none"

\* C17: at a sequence of length n the last segment resolves exactly when it
\* parses to an integer i with 0 <= i < n, to the i-th element; a segment
\* that parses to a negative integer resolves to nothing
C17_NonNegativeIndex ==
    (/\ last.op = "get_from_dict"
     /\ ParentBefore.err = "none"
     /\ ParentBefore.val.kind = "list") =>
        /\ (last.err = "none") = FinalIsIndex
        /\ FinalIsIndex =>
              last.val = ParentBefore.val.l[int(Levels[Len(Levels)]).n + 1]
        /\ (int(Levels[Len(Levels)]).ok /\ int(Levels[Len(Levels)]).n < 0)
              => last.err # "none"

(***************************************************************************)
(* LiveSpec: the sessions of Spec with a cooperative user, who does not    *)
(* leave the recovery's raw editor open forever and does not forever       *)
(* confirm texts that fail a binding's check: sooner or later the editor   *)
(* is confirmed with a configuration every binding accepts, or "Quit       *)
(* Config" is clicked.                                                     *)
(***************************************************************************)
CooperativeReturn ==
    /\ win.state = "Recovering"
    /\ \/ QuitConfig
       \/ EditorAccept /\ Invalid(registry') = {}

LiveSpec == Init /\ [][Next]_vars /\ WF_vars(CooperativeReturn)

\* every widget_update of the window ran in the last pass and none raised
Refreshed ==
    /\ win.error = NoError
    /\ Called(win.log, "pull") = [i \in 1..Len(Bindings) |-> i]

\* C18: with a cooperative user the recovery ends: the session reaches the
\* window with every binding refreshed, or is closed; and no step taken
\* from the recovery calls save()
C18_RecoveryEnds ==
    /\ [][win.state = "Recovering" => Called(win'.log, "save") = <<>>]_vars
    /\ (win.state = "Recovering") ~>
          (win.state = "Closed" \/ (win.state = "Open" /\ Refreshed))

(***************************************************************************)
(* Further claims about the session (Spec).                                *)
(***************************************************************************)
\* C19: whenever a session has been closed, by Save, by Cancel, by
\* dismissing the window or by "Quit Config", the current tree is the
\* persisted configuration
C19_ClosedMeansLoaded ==
    (win.state = "Closed" /\ win.closedBy # "none") => Current = registry

\* closed by Save with a staged edit: what was saved is what is loaded
C19_Witness ==
    /\ win.state = "Closed"
    /\ win.closedBy = "save"
    /\ win.preClose # win.openT
    /\ registry # win.openT
    /\ Current = registry

\* C20: when on_advanced returns to the window, however the raw editor was
\* closed, the current tree equals the persisted configuration and every
\* binding has been pulled again from it
C20_AdvancedReloads ==
    [][(win.caller = "on_advanced" /\ win'.state = "Open") =>
          /\ Py(Current') = Py(registry')
          /\ Refreshed'
          /\ win'.passTree = registry']_vars

(***************************************************************************)
(* Further claims about the widgets (WidgetSpec).                          *)
(***************************************************************************)
\* C21: an update() that accepts the stored value leaves the current tree
\* as it was (as Python's == compares trees), although setting the control
\* runs the handler connected to its value-changed signal
C21_PullLeavesTree ==
    (last.op = "update" /\ win.exc = "none") => Py(Current) = Py(last.pre)

====
